---------------------------- MODULE Spec2Model ----------------------------
(***************************************************************************)
(* A model of vec4ir/base.py: the boolean term matcher TermMatch, the      *)
(* index kept by RetrievalBase / TfidfRetrieval (_inv_X, _X, _y, n_docs),  *)
(* its two mutators fit and partial_fit, query, and the relevance lookup   *)
(* of RetriEvalMixin.evaluate.                                             *)
(*                                                                         *)
(* Conventions.  A document is the sequence of its tokens (the analyzer of *)
(* the two sklearn vectorizers, which is the same for both under the       *)
(* default constructor arguments).  Matrices are dense sequences of rows.  *)
(* Python positions are 0-based, positions here are 1-based: row i of the  *)
(* source is row i+1 here.  An identifier array is a record of its numpy   *)
(* dtype ("int" or "str") and its data; a "str" datum is the code of a     *)
(* label.  Weights are fixed-point integers (WeightScale stands for 1.0).  *)
(***************************************************************************)
EXTENDS Integers, Sequences, FiniteSets, TLC

(***************************************************************************)
(* Bounds of the model.                                                    *)
(***************************************************************************)
MaxCalls == 2      \* fit / partial_fit calls in one behaviour
MaxK == 2          \* largest k passed to query and evaluate
TMRows == 3        \* rows of the matrices TermMatch is applied to alone
TMTerms == 2       \* columns of those matrices

(***************************************************************************)
(* The fixed-point value of 1.0 in the weighted matrix.                    *)
(***************************************************************************)
WeightScale == 1000

(***************************************************************************)
(* Words, in the order sorted() gives the vocabulary its column indices.   *)
(***************************************************************************)
Alphabet ==
  <<"brown", "doc", "dog", "fox", "jumps", "lazy", "new", "over", "quick", "the">>

Range(s) == {s[i] : i \in DOMAIN s}

Min(a, b) == IF a < b THEN a ELSE b

RECURSIVE SetToSortedSeq(_)
SetToSortedSeq(S) ==
  IF S = {} THEN <<>>
  ELSE LET m == CHOOSE x \in S : \A z \in S : x <= z
       IN <<m>> \o SetToSortedSeq(S \ {m})

RECURSIVE SumSeq(_)
SumSeq(s) == IF s = <<>> THEN 0 ELSE Head(s) + SumSeq(Tail(s))

RECURSIVE MaxSeq(_)
MaxSeq(s) ==
  IF Len(s) = 1 THEN s[1]
  ELSE LET m == MaxSeq(Tail(s)) IN IF s[1] > m THEN s[1] ELSE m

ISqrt(x) == CHOOSE r \in 0..x : r * r <= x /\ (r + 1) * (r + 1) > x

(***************************************************************************)
(* numpy / scipy primitives used by the source                             *)
(***************************************************************************)
\* M.transpose() of a matrix with nterms columns
transpose(M, nterms) ==
  [j \in 1..nterms |-> [i \in 1..Len(M) |-> M[i][j]]]

\* the ascending positions of the nonzero entries of one row
nonzero_row(row) ==
  SelectSeq([i \in 1..Len(row) |-> i], LAMBDA i : row[i] # 0)

\* M.nonzero()[1]: the column positions of the nonzero entries, row by row
RECURSIVE nonzero_cols(_)
nonzero_cols(M) ==
  IF M = <<>> THEN <<>> ELSE nonzero_row(Head(M)) \o nonzero_cols(Tail(M))

\* mutant: the positions as found, neither sorted nor deduplicated
unique_as_found(s) == s

\* np.unique: the sorted distinct elements
unique(s) == SetToSortedSeq(Range(s))

\* A[ind] with an integer index array
take(A, ind) == [n \in 1..Len(ind) |-> A[ind[n]]]

\* mutant: the new rows stacked above the old ones
vstack_above(A, B) == B \o A

\* sp.vstack([A, B]) and np.hstack([a, b])
vstack(A, B) == A \o B

hstack(a, b) == a \o b

\* np.arange(lo, hi)
arange(lo, hi) == [n \in 1..(hi - lo) |-> lo + n - 1]

(***************************************************************************)
(* TermMatch                                                               *)
(***************************************************************************)
TermMatch(X, q) ==
  LET inverted_index == transpose(X, Len(q[1]))
      query_terms == nonzero_cols(q)
      matching_terms == take(inverted_index, query_terms)
      matching_doc_indices == unique(nonzero_cols(matching_terms))
  IN matching_doc_indices


(***************************************************************************)
(* The two vectorizers.  _init_params builds the CountVectorizer with      *)
(* binary=True, dtype=bool; __init__ builds the TfidfVectorizer with its   *)
(* defaults (use_idf, smooth_idf, norm='l2').                              *)
(***************************************************************************)
\* number of occurrences of word w in a document
tf(doc, w) == Cardinality({i \in DOMAIN doc : doc[i] = w})

\* the vocabulary learnt from a batch: its distinct words, sorted
fit_vocabulary(X) ==
  SelectSeq(Alphabet, LAMBDA w : \E i \in DOMAIN X : w \in Range(X[i]))

\* CountVectorizer.transform: one boolean row per document over the fixed
\* vocabulary; a word outside the vocabulary has no column and is dropped
cv_transform(vocabulary, X) ==
  [i \in 1..Len(X) |->
     [j \in 1..Len(vocabulary) |-> IF vocabulary[j] \in Range(X[i]) THEN 1 ELSE 0]]

\* smoothed idf, ln((1 + n) / (1 + df)) + 1, in hundredths: IdfTable[n][df]
IdfTable ==
  << <<100>>,
     <<141, 100>>,
     <<169, 129, 100>>,
     <<192, 151, 122, 100>>,
     <<210, 169, 141, 118, 100>> >>

\* TfidfVectorizer.fit: the idf of every vocabulary word over the batch
fit_idf(vocabulary, X) ==
  [j \in 1..Len(vocabulary) |->
     IdfTable[Len(X)][Cardinality({i \in DOMAIN X : vocabulary[j] \in Range(X[i])})]]

\* one l2-normalised tf-idf row
tfidf_row(vocabulary, idf, doc) ==
  LET raw == [j \in 1..Len(vocabulary) |-> tf(doc, vocabulary[j]) * idf[j]]
      norm == ISqrt(SumSeq([j \in 1..Len(raw) |-> raw[j] * raw[j]]))
  IN [j \in 1..Len(raw) |-> IF norm = 0 THEN 0 ELSE (raw[j] * WeightScale) \div norm]

\* TfidfVectorizer.transform
tfidf_transform(vocabulary, idf, X) ==
  [i \in 1..Len(X) |-> tfidf_row(vocabulary, idf, X[i])]

(***************************************************************************)
(* Inputs of the calls                                                     *)
(***************************************************************************)
TheQuick == <<"the", "quick">>
BrownFox == <<"brown", "fox">>
JumpsOver == <<"jumps", "over">>
TheLazyDog == <<"the", "lazy", "dog">>
NewFoxDoc == <<"new", "fox", "doc">>
NoWords == <<>>

FixtureDocs == <<TheQuick, BrownFox, JumpsOver, TheLazyDog>>

\* the document batches a caller may pass to fit and partial_fit
DocBatches ==
  { <<>>, <<NoWords>>, <<NewFoxDoc>>, <<NewFoxDoc, BrownFox>>, FixtureDocs }

\* y=None, and np.asarray(y) of a list of integers or of labels
None == [given |-> FALSE, dtype |-> "int", data |-> <<>>]

IntIds(data) == [given |-> TRUE, dtype |-> "int", data |-> data]

StrIds(data) == [given |-> TRUE, dtype |-> "str", data |-> data]

IdArgs == { None, IntIds(<<7>>), IntIds(<<7, 3>>), StrIds(<<1>>) }

QueryTexts == { NewFoxDoc, <<"lazy">>, <<"jumps", "dog">> }

(***************************************************************************)
(* State                                                                   *)
(***************************************************************************)
VARIABLES
  fitted,      \* the attributes _inv_X, _X, _y, n_docs exist
  _cv,         \* vocabulary_ of the CountVectorizer
  vectorizer,  \* vocabulary_ and idf_ of the TfidfVectorizer
  _inv_X,      \* the boolean matrix
  _X,          \* the weighted matrix
  _y,          \* the identifier array
  n_docs,
  calls,       \* fit / partial_fit calls made so far
  call,        \* the last call and its arguments
  out,         \* what the last call returned or raised
  tm           \* a TermMatch call on its own: its arguments and result

index == <<fitted, _cv, vectorizer, _inv_X, _X, _y, n_docs>>

vars == <<fitted, _cv, vectorizer, _inv_X, _X, _y, n_docs, calls, call, out, tm>>

NoCall ==
  [op |-> "none", X |-> <<>>, y |-> None, query |-> <<>>, k |-> 0,
   queries |-> <<>>, Y |-> [shape |-> "flat", nq |-> 0, rel |-> <<>>]]

NoOut ==
  [raised |-> "", ret |-> <<>>, ranked |-> FALSE, results |-> <<>>, rs |-> <<>>,
   values |-> {}]

NoTM == [X |-> <<>>, q |-> <<>>, called |-> FALSE, ret |-> <<>>]

Init ==
  /\ fitted = FALSE
  /\ _cv = <<>>
  /\ vectorizer = [vocabulary_ |-> <<>>, idf_ |-> <<>>]
  /\ _inv_X = <<>>
  /\ _X = <<>>
  /\ _y = [dtype |-> "int", data |-> <<>>]
  /\ n_docs = 0
  /\ calls = 0
  /\ call = NoCall
  /\ out = NoOut
  /\ tm = NoTM

\* query and evaluate leave the index as it is, so the calls that can
\* follow one of them are those that can follow the state it was made in:
\* the model makes them the last call of a behaviour
Open == call.op \notin {"query", "evaluate"}

(***************************************************************************)
(* fit and partial_fit                                                     *)
(***************************************************************************)
\* mutant: only too few identifiers are refused
checkXy_too_few(X, y) == y.given /\ Len(X) > Len(y.data)

\* _checkXy: TRUE when it raises
checkXy(X, y) == y.given /\ Len(X) # Len(y.data)

Raise(e) == [NoOut EXCEPT !.raised = e]

\* TfidfRetrieval.fit, with RetrievalBase._fit
Fit(X, y) ==
  /\ Open
  /\ calls < MaxCalls
  /\ calls' = calls + 1
  /\ call' = [NoCall EXCEPT !.op = "fit", !.X = X, !.y = y]
  /\ tm' = tm
  /\ IF checkXy(X, y)
       THEN /\ out' = Raise("ValueError")
            /\ UNCHANGED index
     ELSE IF fit_vocabulary(X) = <<>>
       \* cv.fit_transform: "empty vocabulary", before anything is assigned
       THEN /\ out' = Raise("ValueError")
            /\ UNCHANGED index
     ELSE /\ _cv' = fit_vocabulary(X)
          /\ _inv_X' = cv_transform(fit_vocabulary(X), X)
          /\ _y' = IF y.given THEN [dtype |-> y.dtype, data |-> y.data]
                   ELSE [dtype |-> "int", data |-> arange(0, Len(X))]
          /\ n_docs' = Len(X)
          /\ vectorizer' = [vocabulary_ |-> fit_vocabulary(X),
                            idf_ |-> fit_idf(fit_vocabulary(X), X)]
          /\ _X' = tfidf_transform(fit_vocabulary(X), fit_idf(fit_vocabulary(X), X), X)
          /\ fitted' = TRUE
          /\ out' = NoOut

\* mutant: the next identifier is the number of stored ones
next_id_count(y) == Len(y.data)

\* np.amax(self._y) + 1
next_id(y) == MaxSeq(y.data) + 1

\* mutant: fit_transform, which learns the vocabulary of the new batch
partial_rows_refit(X) == cv_transform(fit_vocabulary(X), X)

\* self._cv.transform(X): the new rows, over the vocabulary learnt by fit
partial_rows(X) == cv_transform(_cv, X)

\* TfidfRetrieval.partial_fit, with RetrievalBase._partial_fit
PartialFit(X, y) ==
  /\ Open
  /\ calls < MaxCalls
  /\ calls' = calls + 1
  \* explicit identifiers have the dtype of the stored ones
  /\ (fitted /\ y.given) => y.dtype = _y.dtype
  /\ call' = [NoCall EXCEPT !.op = "partial_fit", !.X = X, !.y = y]
  /\ tm' = tm
  /\ IF checkXy(X, y)
       THEN /\ out' = Raise("ValueError")
            /\ UNCHANGED index
     ELSE IF ~fitted
       \* self._inv_X does not exist
       THEN /\ out' = Raise("AttributeError")
            /\ UNCHANGED index
     ELSE /\ _inv_X' = vstack(_inv_X, partial_rows(X))
          /\ UNCHANGED <<fitted, _cv, vectorizer>>
          /\ IF _y.dtype # "int" \/ _y.data = <<>>
               \* np.amax of labels, or of an empty array, raises: the rows
               \* stacked above stay
               THEN /\ out' = Raise(IF _y.dtype # "int" THEN "TypeError" ELSE "ValueError")
                    /\ UNCHANGED <<_X, _y, n_docs>>
             ELSE /\ _y' = [_y EXCEPT !.data =
                              hstack(_y.data,
                                     IF y.given THEN y.data
                                     ELSE arange(next_id(_y), next_id(_y) + Len(X)))]
                  /\ n_docs' = n_docs + Len(X)
                  /\ IF X = <<>>
                       \* vectorizer.transform of no document: check_array
                       \* refuses an array of 0 samples
                       THEN /\ out' = Raise("ValueError")
                            /\ _X' = _X
                     ELSE /\ _X' = vstack(_X, tfidf_transform(vectorizer.vocabulary_,
                                                               vectorizer.idf_, X))
                          /\ out' = NoOut

(***************************************************************************)
(* query                                                                   *)
(***************************************************************************)
\* the similarity NearestNeighbors(metric='cosine') orders by: the rows are
\* l2-normalised, so the cosine is the dot product
cosine(d, q) == SumSeq([j \in 1..Len(d) |-> d[j] * q[j]])

\* mutant: the least similar rows first
kneighbors_farthest(Xm, q, n_neighbors) ==
  { ind \in [1..n_neighbors -> 1..Len(Xm)] :
      /\ \A a, b \in 1..n_neighbors :
           a < b => /\ ind[a] # ind[b]
                    /\ cosine(Xm[ind[a]], q) <= cosine(Xm[ind[b]], q)
      /\ \A i \in 1..Len(Xm) :
           i \notin Range(ind) => cosine(Xm[i], q) >= cosine(Xm[ind[n_neighbors]], q) }

\* nn.kneighbors(q, n_neighbors)[0] after nn.fit(Xm): the positions of the
\* n_neighbors most similar rows, most similar first; equal similarities come
\* in either order
kneighbors(Xm, q, n_neighbors) ==
  { ind \in [1..n_neighbors -> 1..Len(Xm)] :
      /\ \A a, b \in 1..n_neighbors :
           a < b => /\ ind[a] # ind[b]
                    /\ cosine(Xm[ind[a]], q) >= cosine(Xm[ind[b]], q)
      /\ \A i \in 1..Len(Xm) :
           i \notin Range(ind) => cosine(Xm[i], q) <= cosine(Xm[ind[n_neighbors]], q) }

\* the model dependent stage of query: NearestNeighbors refuses to fit no row
\* and to return no neighbour
rank(Xm, matched_doc_ids, q, n_ret) ==
  IF Xm = <<>> \/ n_ret <= 0
    THEN {[Raise("ValueError") EXCEPT !.ranked = TRUE]}
  ELSE { [NoOut EXCEPT !.ret = take(matched_doc_ids, ind), !.ranked = TRUE] :
           ind \in kneighbors(Xm, q[1], n_ret) }

\* mutant: no early return
short_circuit_never(n_ret) == FALSE

\* "if not n_ret: return []"
short_circuit(n_ret) == n_ret = 0

\* RetrievalBase._matching(query, return_indices=True)
matching(query) == TermMatch(_inv_X, cv_transform(_cv, <<query>>))

\* what TfidfRetrieval.query can return or raise in the current state
QueryOutcomes(query, k) ==
  IF ~fitted
    THEN {Raise("AttributeError")}
  ELSE
    LET matching_ind == matching(query)
        n_match == Len(matching_ind)
        n_ret == Min(n_match, k)
    IN IF \E n \in 1..n_match :
            matching_ind[n] > Len(_X) \/ matching_ind[n] > Len(_y.data)
         \* self._X[matching_ind], self._y[matching_ind]
         THEN {Raise("IndexError")}
       ELSE IF short_circuit(n_ret)
         THEN {NoOut}
       ELSE
         LET Xm == take(_X, matching_ind)
             matched_doc_ids == take(_y.data, matching_ind)
             q == tfidf_transform(vectorizer.vocabulary_, vectorizer.idf_, <<query>>)
         IN rank(Xm, matched_doc_ids, q, n_ret)

Query(query, k) ==
  /\ Open
  /\ call' = [NoCall EXCEPT !.op = "query", !.query = query, !.k = k]
  /\ out' \in QueryOutcomes(query, k)
  /\ UNCHANGED <<index, calls, tm>>

(***************************************************************************)
(* evaluate                                                                *)
(***************************************************************************)
VALID_METRICS == {"mean_reciprocal_rank", "mean_average_precision", "average_ndcg_at_k"}

\* The judgments Y: rel maps (qid, docid) to a grade.  "flat" is a mapping
\* keyed by the pair, with a get method (a dict, a pandas series);
\* "dict_of_dict" is a dict keyed by qid of dicts keyed by docid;
\* "list_of_dict" is a list, indexed by qid, of such dicts (no get method).
Shapes == {"flat", "dict_of_dict", "list_of_dict"}

HasGet(Y) == Y.shape \in {"flat", "dict_of_dict"}

\* Y.get((qid, docid), 0): the keys of a dict of dicts are the qids, never a pair
Get(Y, qid, docid, dtype) ==
  IF Y.shape = "flat" /\ dtype = "int" /\ <<qid, docid>> \in DOMAIN Y.rel
    THEN Y.rel[<<qid, docid>>]
    ELSE 0

\* lines 210-213: the relevance of every document of one result
Relevance(Y, qid, result, dtype) ==
  IF result = <<>> THEN [raised |-> "", r |-> <<>>]
  ELSE IF HasGet(Y)
    THEN [raised |-> "", r |-> [n \in 1..Len(result) |-> Get(Y, qid, result[n], dtype)]]
  \* AttributeError caught: Y[qid][docid]
  ELSE IF qid \notin 0..(Y.nq - 1)
    THEN [raised |-> "IndexError", r |-> <<>>]
  ELSE IF \E n \in 1..Len(result) :
            dtype # "int" \/ <<qid, result[n]>> \notin DOMAIN Y.rel
    THEN [raised |-> "KeyError", r |-> <<>>]
  ELSE [raised |-> "", r |-> [n \in 1..Len(result) |-> Y.rel[<<qid, result[n]>>]]]

\* the loop of evaluate: the results and relevance sequences collected up
\* to the end or to the first error
RECURSIVE EvalLoop(_, _, _)
EvalLoop(X, Y, k) ==
  IF X = <<>> THEN {[raised |-> "", at |-> "", results |-> <<>>, rs |-> <<>>]}
  ELSE UNION
    { IF o.raised # ""
        THEN {[raised |-> o.raised, at |-> "query", results |-> <<>>, rs |-> <<>>]}
      ELSE
        LET rel == Relevance(Y, Head(X).qid, o.ret, _y.dtype)
        IN IF rel.raised # ""
             THEN {[raised |-> rel.raised, at |-> "judgments",
                    results |-> <<o.ret>>, rs |-> <<>>]}
           ELSE {[rest EXCEPT !.results = <<o.ret>> \o @, !.rs = <<rel.r>> \o @] :
                   rest \in EvalLoop(Tail(X), Y, k)}
      : o \in QueryOutcomes(Head(X).query, k) }

Evaluate(X, Y, k) ==
  /\ Open
  /\ call' = [NoCall EXCEPT !.op = "evaluate", !.queries = X, !.Y = Y, !.k = k]
  /\ \E run \in EvalLoop(X, Y, k) :
       out' = [NoOut EXCEPT
                 !.raised = IF run.raised = "" THEN ""
                            ELSE run.raised \o " in " \o run.at,
                 !.results = run.results,
                 !.rs = run.rs,
                 !.values = IF run.raised = "" THEN VALID_METRICS ELSE {}]
  /\ UNCHANGED <<index, calls, tm>>

GradesAll == (<<0, 4>> :> 2) @@ (<<0, 1>> :> 1) @@ (<<1, 4>> :> 1) @@ (<<1, 1>> :> 0)

GradesSome == (<<0, 4>> :> 2) @@ (<<1, 7>> :> 1)

Judgments == {[shape |-> s, nq |-> 2, rel |-> r] : s \in Shapes, r \in {GradesAll, GradesSome}}

EvalQueries ==
  { <<[qid |-> 0, query |-> NewFoxDoc]>>,
    <<[qid |-> 0, query |-> <<"lazy">>], [qid |-> 1, query |-> NewFoxDoc]>> }

(***************************************************************************)
(* The retrieval object: any sequence of fit and partial_fit calls, ended  *)
(* or not by a query or an evaluate (see Open).                            *)
(***************************************************************************)
Next ==
  \/ \E X \in DocBatches, y \in IdArgs : Fit(X, y)
  \/ \E X \in DocBatches, y \in IdArgs : PartialFit(X, y)
  \/ \E query \in QueryTexts, k \in 0..MaxK : Query(query, k)
  \/ \E X \in EvalQueries, Y \in Judgments : Evaluate(X, Y, MaxK)

Spec == Init /\ [][Next]_vars

(***************************************************************************)
(* TermMatch on its own, over every boolean matrix and query vector of the *)
(* bounded shapes, and over the matrix of its doctest                      *)
(***************************************************************************)
DoctestX ==
  << <<0, 0, 1>>, <<0, 1, 0>>, <<0, 1, 1>>, <<1, 0, 0>>, <<1, 0, 1>>, <<1, 1, 0>> >>

BoolVectors(n) == [1..n -> {0, 1}]

BoolMatrices(rows, n) == UNION {[1..m -> BoolVectors(n)] : m \in 0..rows}

TermMatchArgs ==
  {<<X, q>> : X \in BoolMatrices(TMRows, TMTerms), q \in BoolVectors(TMTerms)}
    \cup {<<DoctestX, q>> : q \in BoolVectors(3)}

InitTM ==
  /\ fitted = FALSE
  /\ _cv = <<>>
  /\ vectorizer = [vocabulary_ |-> <<>>, idf_ |-> <<>>]
  /\ _inv_X = <<>>
  /\ _X = <<>>
  /\ _y = [dtype |-> "int", data |-> <<>>]
  /\ n_docs = 0
  /\ calls = 0
  /\ call = NoCall
  /\ out = NoOut
  /\ \E args \in TermMatchArgs :
       tm = [X |-> args[1], q |-> <<args[2]>>, called |-> FALSE, ret |-> <<>>]

TermMatchCall ==
  /\ ~tm.called
  /\ tm' = [tm EXCEPT !.called = TRUE, !.ret = TermMatch(tm.X, tm.q)]
  /\ UNCHANGED <<index, calls, call, out>>

NextTM == TermMatchCall

SpecTM == InitTM /\ [][NextTM]_vars

(***************************************************************************)
(* The claims                                                              *)
(***************************************************************************)
Mismatch(c) == c.y.given /\ Len(c.X) # Len(c.y.data)

Columns(M, n) == \A i \in 1..Len(M) : Len(M[i]) = n

Prefix(s, t) == Len(s) <= Len(t) /\ SubSeq(t, 1, Len(s)) = s

Greatest(s) == CHOOSE x \in Range(s) : \A z \in Range(s) : z <= x

\* the grade the judgments hold for (qid, docid), 0 when they hold none
Grade(Y, qid, docid) ==
  IF _y.dtype = "int" /\ <<qid, docid>> \in DOMAIN Y.rel THEN Y.rel[<<qid, docid>>] ELSE 0

\* C1: in every reachable state, whether the last call returned or raised,
\* the boolean matrix, the weighted matrix and the identifier array have the
\* same number of rows, and n_docs is that number.
C1_RowAlignment ==
  /\ Len(_inv_X) = Len(_X)
  /\ Len(_X) = Len(_y.data)
  /\ Len(_y.data) = n_docs

\* C2: on every index, query(text, k) returns the identifiers _y[i] of
\* exactly min(|C|, k) pairwise distinct rows i of the candidate set C that
\* TermMatch gives for the text.
C2_RankingRestricted ==
  (call.op = "query" /\ fitted) =>
    /\ out.raised = ""
    /\ LET C == Range(matching(call.query))
       IN /\ Len(out.ret) = Min(Cardinality(C), call.k)
          /\ \E rows \in [1..Len(out.ret) -> C] :
               /\ \A a, b \in 1..Len(out.ret) : a # b => rows[a] # rows[b]
               /\ \A n \in 1..Len(out.ret) : out.ret[n] = _y.data[rows[n]]

\* C3: TermMatch(X, q) is strictly increasing and holds exactly the rows of X
\* that have a nonzero entry in a column where q is nonzero (none when q is
\* all-zero or no row shares a term with q).
C3_MatchingCorrect ==
  tm.called =>
    /\ \A a, b \in 1..Len(tm.ret) : a < b => tm.ret[a] < tm.ret[b]
    /\ Range(tm.ret) =
         {i \in 1..Len(tm.X) :
            \E j \in 1..Len(tm.q[1]) : tm.X[i][j] # 0 /\ tm.q[1][j] # 0}

\* the doctest's TermMatch(X, [[0,1,1]]) = [0, 1, 2, 4, 5], rows counted from 1
C3_Witness ==
  /\ tm.called
  /\ tm.X = DoctestX
  /\ tm.q = << <<0, 1, 1>> >>
  /\ tm.ret = <<1, 2, 3, 5, 6>>

\* C4: a fit or partial_fit whose ids are given and differ in length from
\* the documents raises, and leaves the whole index as it was.
C4_ShapeMismatch ==
  [][ (call'.op \in {"fit", "partial_fit"} /\ Mismatch(call')) =>
        (out'.raised = "ValueError" /\ UNCHANGED index) ]_vars

C4_Witness ==
  /\ call.op = "partial_fit"
  /\ Mismatch(call)
  /\ fitted
  /\ n_docs = 2
  /\ out.raised = "ValueError"

\* C5: a fit of n documents without ids that returns stores the identifiers
\* 0..n-1; a partial_fit of m documents without ids on an index of numeric
\* identifiers appends exactly M+1..M+m, M the greatest identifier stored
\* before the call.
C5_AutoIds ==
  [][ /\ (call'.op = "fit" /\ ~call'.y.given /\ out'.raised = "") =>
           _y' = [dtype |-> "int", data |-> [n \in 1..Len(call'.X) |-> n - 1]]
      /\ (call'.op = "partial_fit" /\ ~call'.y.given /\ fitted /\ _y.dtype = "int") =>
           _y' = [_y EXCEPT !.data =
                    @ \o [n \in 1..Len(call'.X) |-> Greatest(_y.data) + n]] ]_vars

\* ids 7, 3 given to fit, then a partial_fit of one document without ids: 8
C5_Witness ==
  /\ call.op = "partial_fit"
  /\ ~call.y.given
  /\ out.raised = ""
  /\ _y = [dtype |-> "int", data |-> <<7, 3, 8>>]

\* C6: evaluate never fails on the judgment lookup, and every relevance
\* sequence it collects has, for each identifier query returned and in that
\* order, the grade the judgments hold for (qid, docid), 0 when they hold
\* none; for the flat and for the nested shapes alike.
C6_JudgmentLookup ==
  call.op = "evaluate" =>
    /\ out.raised \notin {"KeyError in judgments", "IndexError in judgments"}
    /\ \A i \in 1..Len(out.rs) :
         out.rs[i] = [n \in 1..Len(out.results[i]) |->
                        Grade(call.Y, call.queries[i].qid, out.results[i][n])]

\* C7: when no indexed row shares a term with the query, query returns the
\* empty result, does not raise and does not reach the ranking stage; and
\* evaluate, on reaching such a query, records the empty relevance sequence
\* for it and goes on: an evaluate that returns has one sequence per query.
C7_EmptyMatch ==
  /\ (call.op = "query" /\ fitted /\ matching(call.query) = <<>>) =>
       (out.raised = "" /\ out.ret = <<>> /\ ~out.ranked)
  /\ (call.op = "evaluate" /\ fitted) =>
       /\ \A i \in 1..Len(call.queries) :
            (matching(call.queries[i].query) = <<>> /\ Len(out.rs) >= i - 1) =>
              /\ Len(out.rs) >= i
              /\ out.rs[i] = <<>>
              /\ out.results[i] = <<>>
       /\ out.raised = "" => Len(out.rs) = Len(call.queries)

C7_Witness ==
  /\ call.op = "evaluate"
  /\ fitted
  /\ Len(call.queries) = 2
  /\ matching(call.queries[1].query) = <<>>
  /\ out.raised = ""
  /\ out.rs[1] = <<>>
  /\ out.rs[2] # <<>>

SameVocabulary ==
  /\ _cv' = _cv
  /\ vectorizer'.vocabulary_ = vectorizer.vocabulary_
  /\ Columns(_inv_X', Len(_cv))
  /\ Columns(_X', Len(_cv))

\* C9, as stated: once a fit has built the index, the vocabulary and the
\* column counts are the same in every later state, whatever call follows.
C9_FixedVocabulary_AnyCall ==
  [][ fitted => SameVocabulary ]_vars

\* C9, amended: once a fit has built the index, the vocabulary and the column
\* counts stay the same over every later call that is not a fit; a
\* partial_fit of documents with words outside the vocabulary adds no column,
\* and on an index of numeric identifiers a partial_fit of a non-empty batch
\* with as many ids as documents returns whatever words the documents hold.
C9_FixedVocabulary ==
  [][ (fitted /\ call'.op # "fit") =>
        /\ SameVocabulary
        /\ (call'.op = "partial_fit" /\ ~Mismatch(call') /\ _y.dtype = "int"
              /\ call'.X # <<>>) => out'.raised = "" ]_vars

C9_Witness ==
  /\ call.op = "partial_fit"
  /\ out.raised = ""
  /\ call.X = <<NewFoxDoc>>
  /\ Len(_cv) = 8
  /\ "new" \notin Range(_cv)
  /\ Len(_inv_X) = 5
  /\ Columns(_inv_X, 8) /\ Columns(_X, 8)

FixtureIndex ==
  /\ fitted
  /\ _cv = <<"brown", "dog", "fox", "jumps", "lazy", "over", "quick", "the">>
  /\ _inv_X = << <<0, 0, 0, 0, 0, 0, 1, 1>>,
                 <<1, 0, 1, 0, 0, 0, 0, 0>>,
                 <<0, 0, 0, 1, 0, 1, 0, 0>>,
                 <<0, 1, 0, 0, 1, 0, 0, 1>>,
                 <<0, 0, 1, 0, 0, 0, 0, 0>> >>
  /\ Len(_X) = 5
  /\ _y = [dtype |-> "int", data |-> <<0, 1, 2, 3, 4>>]

\* C10: on the index built by fit of "the quick", "brown fox", "jumps over",
\* "the lazy dog" and partial_fit of "new fox doc", all without ids,
\* query("new fox doc", k=2) returns [4, 1].
C10_Fixture ==
  (FixtureIndex /\ call.op = "query" /\ call.query = NewFoxDoc /\ call.k = 2) =>
    (out.raised = "" /\ out.ret = <<4, 1>>)

C10_Witness ==
  /\ FixtureIndex
  /\ call.op = "query" /\ call.query = NewFoxDoc /\ call.k = 2
  /\ out.ret = <<4, 1>>
  /\ out.ranked

=============================================================================
